---- MODULE Spec2Model ----
(***************************************************************************)
(* A model of hw-1/main.cpp, the L1 cache latency prober.                  *)
(*                                                                         *)
(* The program is single threaded.  Its state is the globals (array,       *)
(* arrayLen), the locals of main, capacityAndAssociativity and             *)
(* timeOfArrayRead, the error stream and the exit status.  `pc` is the     *)
(* position in the code.  `entry` names the function of the file that is   *)
(* being run: "main" is the program itself, the other values are direct    *)
(* calls of log2 and of the three pattern generators (fillDirectIndexes    *)
(* and fillReverseIndexes have no call site in main, log2 has none         *)
(* either).                                                                *)
(*                                                                         *)
(* uint32_t is modelled as an unsigned integer of UINT_BITS bits: every    *)
(* uint32_t operation is taken modulo Mod.  Expressions the code evaluates *)
(* in size_t (stride * sizeof(uint32_t)) are not wrapped.                  *)
(*                                                                         *)
(* Undefined behaviour (an access outside the allocated buffer, a read of  *)
(* a cell nothing has written, a store outside the result grid) is a       *)
(* nondeterministic choice: the process is killed, or it goes on, an       *)
(* out-of-range store leaving the modelled objects unchanged and an        *)
(* undefined read giving any uint32_t value.  `ub` records that it         *)
(* happened.                                                               *)
(***************************************************************************)
EXTENDS Integers, Sequences, FiniteSets, TLC

\* width of the model's uint32_t
UINT_BITS == 5

Mod == 2 ^ UINT_BITS

\* sizeof(uint32_t)
ElemSize == 4

\* scaled iteration counts of the Timed Reader
ARRAY_READS_COUNT == 3

WARNUP_READS_COUNT == 2

BATCHES_COUNT == 2

\* largest maxAssoc main is started with
MaxAssocParam == 4

\* largest stride and elems the generators are called with directly
MaxGenStride == 2

MaxGenElems == 4

\* buffer of the direct generator calls: holds the largest footprint
GenLen == (MaxGenElems - 1) * MaxGenStride + 1

\* value of a buffer cell nothing has written since aligned_alloc
Indeterminate == -1

VARIABLES
  entry,      \* the function being run
  pc,         \* position in the code
  maxMemory, maxAssoc, maxStride, minStride,   \* locals of main
  array, arrayLen, allocated,                  \* the backing buffer
  errOut, exitStatus,                          \* std::cerr ids, exit status
  assocBound, \* parameter maxAssoc of capacityAndAssociativity
  stride, stridePow, elems, times, s,
  batch, diff, i, idxWarm, idxTimed, sink,     \* locals of timeOfArrayRead
  n, log,                                      \* locals of log2
  written,    \* ghost: positions the last pattern generation stored to
  readPos,    \* ghost: positions read since the last pattern generation
  calls,      \* ghost: (elems, stride) -> invocations of timeOfArrayRead (1, or 2 for more)
  ub          \* ghost: undefined behaviour has happened

vars == <<entry, pc, maxMemory, maxAssoc, maxStride, minStride, array, arrayLen,
          allocated, errOut, exitStatus, assocBound, stride, stridePow, elems,
          times, s, batch, diff, i, idxWarm, idxTimed, sink, n, log, written,
          readPos, calls, ub>>

mainVars == <<maxMemory, maxAssoc, maxStride, minStride>>
sweepVars == <<assocBound, stride, stridePow, elems, times, s>>
readerVars == <<batch, diff, i, idxWarm, idxTimed, sink>>
log2Vars == <<n, log>>
ghostVars == <<written, readPos, calls, ub>>
bufVars == <<array, arrayLen, allocated>>
outVars == <<errOut, exitStatus>>

----------------------------------------------------------------------------
(* Pure parts *)

\* variant of rassertStatus: the status is the identifier of the check
rassertStatusIsId(id) == id

\* rassert: the status std::exit is called with, for check `id`
rassertStatus(id) == 1

\* positions {0, stride, ..., (elems-1)*stride}
Footprint(st, el) == { k * st : k \in 0 .. (el - 1) }

\* the writes of fillDirectIndexes, in order, as <<position, value>>
RECURSIVE DirectWrites(_, _, _)
DirectWrites(st, last, pos) ==
  IF pos > last THEN << >>
  ELSE IF pos = last THEN << <<pos, 0>> >>
  ELSE << <<pos, (pos + st) % Mod>> >> \o DirectWrites(st, last, (pos + st) % Mod)

\* variant of fillDirectIndexes: the loop runs one position too far
fillDirectOneTooFar(st, el) ==
  DirectWrites(st, (st * (el % Mod)) % Mod, 0)

fillDirectIndexes(st, el) ==
  DirectWrites(st, (st * ((el - 1) % Mod)) % Mod, 0)

\* the writes of fillReverseIndexes, in order
RECURSIVE ReverseWrites(_, _, _, _)
ReverseWrites(st, el, pos, cnt) ==
  IF cnt >= el THEN << >>
  ELSE IF pos = 0 THEN << <<0, (st * ((el - 1) % Mod)) % Mod>> >>
  ELSE << <<pos, (pos - st) % Mod>> >>
       \o ReverseWrites(st, el, (pos - st) % Mod, cnt + 1)

\* variant of fillReverseIndexes: the loop stops one position early
fillReverseOneShort(st, el) ==
  ReverseWrites(st, el, (st * ((el - 1) % Mod)) % Mod, 1)

fillReverseIndexes(st, el) ==
  ReverseWrites(st, el, (st * ((el - 1) % Mod)) % Mod, 0)

\* what std::shuffle can leave in `indexes`: any arrangement of 0 .. elems-1
Shuffles(el) ==
  { p \in [1 .. el -> 0 .. (el - 1)] : \A a, b \in 1 .. el : a # b => p[a] # p[b] }

\* variant of ShuffledNext: the last slot links to slot 0, as in fillDirectIndexes
ShuffledNextWrapsToZero(indexes, el, k) == IF k = el THEN 0 ELSE indexes[k + 1]

\* the successor slot linked to indexes[k]
ShuffledNext(indexes, el, k) == IF k = el THEN indexes[1] ELSE indexes[k + 1]

\* variant of fillShuffledIndexes: the link of the last slot is not stored
fillShuffledWithoutLast(st, el, indexes) ==
  [ k \in 1 .. (el - 1) |->
      << (indexes[k] * st) % Mod, (indexes[k + 1] * st) % Mod >> ]

\* the writes of fillShuffledIndexes for one outcome of the shuffle
fillShuffledIndexes(st, el, indexes) ==
  [ k \in 1 .. el |->
      << (indexes[k] * st) % Mod, (ShuffledNext(indexes, el, k) * st) % Mod >> ]

\* the buffer after a sequence of stores; a store outside it leaves it as it was
RECURSIVE Store(_, _, _)
Store(arr, len, ws) ==
  IF ws = << >> THEN arr
  ELSE LET w == Head(ws)
           a == IF w[1] < len THEN [arr EXCEPT ![w[1]] = w[2]] ELSE arr
       IN Store(a, len, Tail(ws))

Positions(ws) == { ws[k][1] : k \in 1 .. Len(ws) }

InBuffer(ws, len) == \A p \in Positions(ws) : p < len

\* array[p], or Indeterminate where the buffer has no cell p
Deref(arr, p) == IF p \in DOMAIN arr THEN arr[p] ELSE Indeterminate

\* idx <- array[idx], k times, from `start`: the k positions read, then the
\* index the chase ends on
RECURSIVE Chase(_, _, _)
Chase(arr, start, k) ==
  IF k = 0 THEN << start >>
  ELSE << start >> \o Chase(arr, Deref(arr, start), k - 1)

----------------------------------------------------------------------------
(* Initial states *)

NoBuffer == << >>

FreshBuffer(len) == [ p \in 0 .. (len - 1) |-> Indeterminate ]

\* main, started with some values of its four parameters
MainInit ==
  /\ entry = "main"
  /\ pc = "main"
  /\ maxMemory \in {16, 24}
  /\ maxAssoc \in 0 .. MaxAssocParam
  /\ maxStride \in {0, 4, 8}
  /\ minStride \in {2, 4, 8}
  /\ array = NoBuffer /\ arrayLen = 0 /\ allocated = FALSE
  /\ stride = 0 /\ elems = 0
  /\ n = 0

\* one generator called on a buffer that holds the footprint
GenInit ==
  /\ entry \in {"fillDirectIndexes", "fillReverseIndexes", "fillShuffledIndexes"}
  /\ pc = "call"
  /\ maxMemory = 0 /\ maxAssoc = 0 /\ maxStride = 0 /\ minStride = 0
  /\ array = FreshBuffer(GenLen) /\ arrayLen = GenLen /\ allocated = TRUE
  /\ stride \in 1 .. MaxGenStride
  /\ elems \in 1 .. MaxGenElems
  /\ n = 0

\* log2 called on any uint32_t
Log2Init ==
  /\ entry = "log2"
  /\ pc = "call"
  /\ maxMemory = 0 /\ maxAssoc = 0 /\ maxStride = 0 /\ minStride = 0
  /\ array = NoBuffer /\ arrayLen = 0 /\ allocated = FALSE
  /\ stride = 0 /\ elems = 0
  /\ n \in 0 .. (Mod - 1)

Init ==
  /\ (MainInit \/ GenInit \/ Log2Init)
  /\ errOut = << >> /\ exitStatus = 0
  /\ assocBound = 0 /\ stridePow = 0 /\ times = << >> /\ s = 0
  /\ batch = 0 /\ diff = 0 /\ i = 0 /\ idxWarm = 0 /\ idxTimed = 0 /\ sink = 0
  /\ log = 0
  /\ written = {} /\ readPos = {} /\ calls = << >> /\ ub = FALSE

----------------------------------------------------------------------------
(* main *)

\* the expression main hands to rassert
CapacityCheck == (maxAssoc * maxStride) % Mod <= maxMemory

MainCheckPass ==
  /\ entry = "main" /\ pc = "main"
  /\ CapacityCheck
  /\ pc' = "alloc"
  /\ UNCHANGED <<entry, mainVars, bufVars, outVars, sweepVars, readerVars,
                 log2Vars, ghostVars>>

\* rassert(false, 1)
MainCheckFail ==
  /\ entry = "main" /\ pc = "main"
  /\ ~CapacityCheck
  /\ errOut' = Append(errOut, 1)
  /\ exitStatus' = rassertStatus(1)
  /\ pc' = "exited"
  /\ UNCHANGED <<entry, mainVars, bufVars, sweepVars, readerVars, log2Vars,
                 ghostVars>>

\* the result grid as constructed: maxAssoc rows of maxStride cells, all zero
NewGrid(rows, cols) ==
  [ c \in (0 .. (rows - 1)) \X (0 .. (cols - 1)) |-> 0 ]

\* aligned_alloc, arrayLen, and the entry of capacityAndAssociativity
MainAlloc ==
  /\ entry = "main" /\ pc = "alloc"
  /\ arrayLen' = maxMemory \div ElemSize
  /\ array' = FreshBuffer(maxMemory \div ElemSize)
  /\ allocated' = TRUE
  /\ assocBound' = (maxAssoc + 1) % Mod
  /\ stride' = minStride \div ElemSize
  /\ stridePow' = 0
  /\ times' = NewGrid((maxAssoc + 1) % Mod, maxStride)
  /\ pc' = "stride_loop"
  /\ UNCHANGED <<entry, mainVars, outVars, elems, s, readerVars, log2Vars,
                 ghostVars>>

----------------------------------------------------------------------------
(* capacityAndAssociativity *)

\* variant of StrideInRange: maxStride itself is not swept
StrideBelowMax(st) == st * ElemSize < maxStride

\* while (stride * sizeof(uint32_t) <= maxStride)
StrideInRange(st) == st * ElemSize <= maxStride

StrideEnter ==
  /\ pc = "stride_loop"
  /\ StrideInRange(stride)
  /\ elems' = 1
  /\ pc' = "elems_loop"
  /\ UNCHANGED <<entry, mainVars, bufVars, outVars, assocBound, stride,
                 stridePow, times, s, readerVars, log2Vars, ghostVars>>

StrideExit ==
  /\ pc = "stride_loop"
  /\ ~StrideInRange(stride)
  /\ s' = 1
  /\ pc' = "report"
  /\ UNCHANGED <<entry, mainVars, bufVars, outVars, assocBound, stride,
                 stridePow, elems, times, readerVars, log2Vars, ghostVars>>

Called(cs, el, st) ==
  IF <<el, st>> \in DOMAIN cs
    THEN [cs EXCEPT ![<<el, st>>] = 2]
    ELSE cs @@ (<<el, st>> :> 1)

\* while (elems < maxAssoc): call timeOfArrayRead
ElemsEnter ==
  /\ pc = "elems_loop"
  /\ elems < assocBound
  /\ calls' = Called(calls, elems, stride)
  /\ diff' = 0
  /\ batch' = 0
  /\ pc' = "batch_loop"
  /\ UNCHANGED <<entry, mainVars, bufVars, outVars, sweepVars, i, idxWarm,
                 idxTimed, sink, log2Vars, written, readPos, ub>>

\* stride *= 2; stridePow++
ElemsExit ==
  /\ pc = "elems_loop"
  /\ ~(elems < assocBound)
  /\ stride' = (stride * 2) % Mod
  /\ stridePow' = (stridePow + 1) % Mod
  /\ pc' = "stride_loop"
  /\ UNCHANGED <<entry, mainVars, bufVars, outVars, assocBound, elems, times,
                 s, readerVars, log2Vars, ghostVars>>

GridCell(el, pow) == <<el, pow>> \in DOMAIN times

\* timeOfArrayRead returns diff / batchesCount (its sink is gone);
\* times[elems][stridePow] = currentTime; elems++
TimesStore ==
  /\ pc = "batch_loop"
  /\ ~(batch < BATCHES_COUNT)
  /\ GridCell(elems, stridePow)
  /\ diff' = diff \div BATCHES_COUNT
  /\ times' = [times EXCEPT ![<<elems, stridePow>>] = diff \div BATCHES_COUNT]
  /\ elems' = (elems + 1) % Mod
  /\ sink' = 0
  /\ pc' = "elems_loop"
  /\ UNCHANGED <<entry, mainVars, bufVars, outVars, assocBound, stride,
                 stridePow, s, batch, i, idxWarm, idxTimed, log2Vars,
                 ghostVars>>

\* the same with stridePow outside the row: a store outside the vector
TimesStoreOutside ==
  /\ pc = "batch_loop"
  /\ ~(batch < BATCHES_COUNT)
  /\ ~GridCell(elems, stridePow)
  /\ diff' = diff \div BATCHES_COUNT
  /\ ub' = TRUE
  /\ sink' = 0
  /\ \/ /\ pc' = "killed"
        /\ UNCHANGED elems
     \/ /\ pc' = "elems_loop"
        /\ elems' = (elems + 1) % Mod
  /\ UNCHANGED <<entry, mainVars, bufVars, outVars, assocBound, stride,
                 stridePow, times, s, batch, i, idxWarm, idxTimed,
                 log2Vars, written, readPos, calls>>

\* for (s = 1; s < maxAssoc; s *= 2): one row of the table
ReportRow ==
  /\ pc = "report"
  /\ s < assocBound
  /\ s' = (s * 2) % Mod
  /\ UNCHANGED <<entry, pc, mainVars, bufVars, outVars, assocBound, stride,
                 stridePow, elems, times, readerVars, log2Vars, ghostVars>>

\* the table is printed: back in main, free(array); return 0
MainFree ==
  /\ pc = "report"
  /\ ~(s < assocBound)
  /\ allocated' = FALSE
  /\ exitStatus' = 0
  /\ pc' = "done"
  /\ UNCHANGED <<entry, mainVars, array, arrayLen, errOut, sweepVars,
                 readerVars, log2Vars, ghostVars>>

----------------------------------------------------------------------------
(* timeOfArrayRead *)

\* a read of array[idx] whose value the language defines
Defined(idx) == idx < arrayLen /\ array[idx] # Indeterminate

\* variant of TimedStartIdx: the timed loop goes on from where the warmup ended
TimedStartAtWarmupEnd == sink

\* the index the timed loop starts from: for (uint32_t i = 0, idx = 0; ...)
TimedStartIdx == 0

\* duration of one timed loop on the model's clock: one tick per read
Elapsed(reads) == reads

\* for (batch < batchesCount): fillShuffledIndexes, every store inside the buffer
BatchFill ==
  /\ pc = "batch_loop"
  /\ batch < BATCHES_COUNT
  /\ \E indexes \in Shuffles(elems) :
       LET ws == fillShuffledIndexes(stride, elems, indexes) IN
         /\ InBuffer(ws, arrayLen)
         /\ array' = Store(array, arrayLen, ws)
         /\ written' = Positions(ws)
  /\ readPos' = {}
  /\ i' = 0
  /\ idxWarm' = 0
  /\ pc' = "warmup"
  /\ UNCHANGED <<entry, mainVars, arrayLen, allocated, outVars, sweepVars,
                 batch, diff, idxTimed, sink, log2Vars, calls, ub>>

\* the same with a store outside the buffer
BatchFillOutside ==
  /\ pc = "batch_loop"
  /\ batch < BATCHES_COUNT
  /\ \E indexes \in Shuffles(elems) :
       LET ws == fillShuffledIndexes(stride, elems, indexes) IN
         /\ ~InBuffer(ws, arrayLen)
         /\ array' = Store(array, arrayLen, ws)
         /\ written' = Positions(ws)
  /\ readPos' = {}
  /\ ub' = TRUE
  /\ \/ /\ pc' = "killed"
        /\ UNCHANGED <<i, idxWarm>>
     \/ /\ pc' = "warmup"
        /\ i' = 0
        /\ idxWarm' = 0
  /\ UNCHANGED <<entry, mainVars, arrayLen, allocated, outVars, sweepVars,
                 batch, diff, idxTimed, sink, log2Vars, calls>>

\* warmup: idx = array[idx]; sink = idx
WarmupRead ==
  /\ pc = "warmup"
  /\ i < WARNUP_READS_COUNT
  /\ Defined(idxWarm)
  /\ readPos' = readPos \cup {idxWarm}
  /\ idxWarm' = array[idxWarm]
  /\ sink' = array[idxWarm]
  /\ i' = i + 1
  /\ UNCHANGED <<entry, pc, mainVars, bufVars, outVars, sweepVars, batch, diff,
                 idxTimed, log2Vars, written, calls, ub>>

WarmupReadUndefined ==
  /\ pc = "warmup"
  /\ i < WARNUP_READS_COUNT
  /\ ~Defined(idxWarm)
  /\ readPos' = readPos \cup {idxWarm}
  /\ ub' = TRUE
  /\ \/ /\ pc' = "killed"
        /\ UNCHANGED <<idxWarm, sink, i>>
     \/ /\ \E v \in 0 .. (Mod - 1) : idxWarm' = v /\ sink' = v
        /\ i' = i + 1
        /\ UNCHANGED pc
  /\ UNCHANGED <<entry, mainVars, bufVars, outVars, sweepVars, batch, diff,
                 idxTimed, log2Vars, written, calls>>

\* the warmup loop is over and its i and idx are gone (sink keeps the last
\* value read): start = now(), and the timed loop's own i and idx
TimedStart ==
  /\ pc = "warmup"
  /\ ~(i < WARNUP_READS_COUNT)
  /\ i' = 0
  /\ idxWarm' = 0
  /\ idxTimed' = TimedStartIdx
  /\ pc' = "timed"
  /\ UNCHANGED <<entry, mainVars, bufVars, outVars, sweepVars, batch, diff,
                 sink, log2Vars, ghostVars>>

\* measure: idx = array[idx]; sink = idx
TimedRead ==
  /\ pc = "timed"
  /\ i < ARRAY_READS_COUNT
  /\ Defined(idxTimed)
  /\ readPos' = readPos \cup {idxTimed}
  /\ idxTimed' = array[idxTimed]
  /\ sink' = array[idxTimed]
  /\ i' = i + 1
  /\ UNCHANGED <<entry, pc, mainVars, bufVars, outVars, sweepVars, batch, diff,
                 idxWarm, log2Vars, written, calls, ub>>

TimedReadUndefined ==
  /\ pc = "timed"
  /\ i < ARRAY_READS_COUNT
  /\ ~Defined(idxTimed)
  /\ readPos' = readPos \cup {idxTimed}
  /\ ub' = TRUE
  /\ \/ /\ pc' = "killed"
        /\ UNCHANGED <<idxTimed, sink, i>>
     \/ /\ \E v \in 0 .. (Mod - 1) : idxTimed' = v /\ sink' = v
        /\ i' = i + 1
        /\ UNCHANGED pc
  /\ UNCHANGED <<entry, mainVars, bufVars, outVars, sweepVars, batch, diff,
                 idxWarm, log2Vars, written, calls>>

\* the timed loop is over and its i and idx are gone:
\* end = now(); diff += end - start; ++batch
BatchEnd ==
  /\ pc = "timed"
  /\ ~(i < ARRAY_READS_COUNT)
  /\ diff' = diff + Elapsed(ARRAY_READS_COUNT)
  /\ batch' = batch + 1
  /\ i' = 0
  /\ idxTimed' = 0
  /\ pc' = "batch_loop"
  /\ UNCHANGED <<entry, mainVars, bufVars, outVars, sweepVars, idxWarm, sink,
                 log2Vars, ghostVars>>

----------------------------------------------------------------------------
(* log2 *)

\* rassert(n != 0, 2) fails
Log2CheckFail ==
  /\ entry = "log2" /\ pc = "call"
  /\ n = 0
  /\ errOut' = Append(errOut, 2)
  /\ exitStatus' = rassertStatus(2)
  /\ pc' = "exited"
  /\ UNCHANGED <<entry, mainVars, bufVars, sweepVars, readerVars, log2Vars,
                 ghostVars>>

Log2CheckPass ==
  /\ entry = "log2" /\ pc = "call"
  /\ n # 0
  /\ log' = 0
  /\ pc' = "log2_loop"
  /\ UNCHANGED <<entry, mainVars, bufVars, outVars, sweepVars, readerVars, n,
                 ghostVars>>

\* while (n >>= 1) ++log;
Log2Step ==
  /\ pc = "log2_loop"
  /\ n' = n \div 2
  /\ IF n \div 2 # 0
       THEN log' = log + 1 /\ UNCHANGED pc
       ELSE pc' = "returned" /\ UNCHANGED log
  /\ UNCHANGED <<entry, mainVars, bufVars, outVars, sweepVars, readerVars,
                 ghostVars>>

----------------------------------------------------------------------------
(* the pattern generators, called directly *)

GenDirect ==
  /\ entry = "fillDirectIndexes" /\ pc = "call"
  /\ LET ws == fillDirectIndexes(stride, elems) IN
       /\ array' = Store(array, arrayLen, ws)
       /\ written' = Positions(ws)
  /\ pc' = "returned"
  /\ UNCHANGED <<entry, mainVars, arrayLen, allocated, outVars, sweepVars,
                 readerVars, log2Vars, readPos, calls, ub>>

GenReverse ==
  /\ entry = "fillReverseIndexes" /\ pc = "call"
  /\ LET ws == fillReverseIndexes(stride, elems) IN
       /\ array' = Store(array, arrayLen, ws)
       /\ written' = Positions(ws)
  /\ pc' = "returned"
  /\ UNCHANGED <<entry, mainVars, arrayLen, allocated, outVars, sweepVars,
                 readerVars, log2Vars, readPos, calls, ub>>

GenShuffled ==
  /\ entry = "fillShuffledIndexes" /\ pc = "call"
  /\ \E indexes \in Shuffles(elems) :
       LET ws == fillShuffledIndexes(stride, elems, indexes) IN
         /\ array' = Store(array, arrayLen, ws)
         /\ written' = Positions(ws)
  /\ pc' = "returned"
  /\ UNCHANGED <<entry, mainVars, arrayLen, allocated, outVars, sweepVars,
                 readerVars, log2Vars, readPos, calls, ub>>

----------------------------------------------------------------------------

Next ==
  \/ MainCheckPass \/ MainCheckFail \/ MainAlloc
  \/ StrideEnter \/ StrideExit \/ ElemsEnter \/ ElemsExit
  \/ TimesStore \/ TimesStoreOutside \/ ReportRow \/ MainFree
  \/ BatchFill \/ BatchFillOutside
  \/ WarmupRead \/ WarmupReadUndefined \/ TimedStart
  \/ TimedRead \/ TimedReadUndefined \/ BatchEnd
  \/ Log2CheckFail \/ Log2CheckPass \/ Log2Step
  \/ GenDirect \/ GenReverse \/ GenShuffled

Spec == Init /\ [][Next]_vars

\* the process is never suspended: a step that can be taken is taken
FairSpec == Spec /\ WF_vars(Next)

----------------------------------------------------------------------------
(* Properties *)

\* the buffer has a cell for every position of the footprint
FootprintFits == \A p \in Footprint(stride, elems) : p < arrayLen

\* a pattern generation has just returned: called directly, or in a batch
ShuffledJustFilled ==
  \/ entry = "fillShuffledIndexes" /\ pc = "returned"
  \/ entry = "main" /\ pc = "warmup" /\ i = 0

\* C1: for stride >= 1 and elems >= 1, after fillShuffledIndexes the chase from
\* position 0 comes back to 0 for the first time after exactly elems steps, and
\* the elems positions it reads before that are pairwise different and are the
\* footprint {0, stride, ..., (elems-1)*stride}, whatever the shuffle gave.
C1_ShuffledSingleCycle ==
  (ShuffledJustFilled /\ stride >= 1 /\ elems >= 1 /\ FootprintFits) =>
    LET c == Chase(array, 0, elems) IN
      /\ c[elems + 1] = 0
      /\ \A k \in 2 .. elems : c[k] # 0
      /\ \A a, b \in 1 .. elems : a # b => c[a] # c[b]
      /\ { c[k] : k \in 1 .. elems } = Footprint(stride, elems)

\* a batch of the sweep has generated the cycle 0 -> 4 -> 2 -> 0, which is not
\* the increasing order of its 3 positions
C1_Witness ==
  /\ entry = "main" /\ pc = "warmup" /\ i = 0 /\ ~ub
  /\ stride = 2 /\ elems = 3
  /\ array[0] = 4 /\ array[4] = 2 /\ array[2] = 0

\* C2: in a batch of timeOfArrayRead whose footprint the buffer holds, every
\* position the generation stored to and every position the warmup and the timed
\* chase read lies in {0, stride, ..., (elems-1)*stride}, and every position read
\* was stored to by this batch's generation.
C2_BatchStaysInFootprint ==
  (entry = "main" /\ pc \in {"warmup", "timed"} /\ FootprintFits) =>
    /\ written \subseteq Footprint(stride, elems)
    /\ readPos \subseteq Footprint(stride, elems)
    /\ readPos \subseteq written

\* the timed chase of a batch is over, it has read the whole footprint, and a
\* cell outside the footprint still holds a link of an earlier pattern
C2_Witness ==
  /\ entry = "main" /\ pc = "timed" /\ i = ARRAY_READS_COUNT /\ ~ub
  /\ elems >= 2
  /\ readPos = Footprint(stride, elems)
  /\ \E p \in DOMAIN array : p \notin Footprint(stride, elems)
                             /\ array[p] # Indeterminate

\* the product of main's check, not wrapped
ProductExceeds == maxAssoc * maxStride > maxMemory

\* C3: when maxAssoc * maxStride (the product of the numbers) exceeds maxMemory,
\* main's check fails: nothing is allocated and nothing is measured, and once
\* past the check the process has exited with status 1 after printing 1.
C3_ExceedingProductIsFatal ==
  (entry = "main" /\ ProductExceeds) =>
    /\ ~allocated
    /\ calls = << >>
    /\ pc # "main" => (pc = "exited" /\ exitStatus = 1 /\ errOut = << 1 >>)

\* the identifiers of the checks of the file
CheckIds == {1, 2}

\* the check whose failure ended the process
FailedCheck == IF entry = "main" THEN 1 ELSE 2

\* C4 as stated: a process ended by a check has a nonzero status that no other
\* check ends a process with.
C4_DistinctStatusPerCheck ==
  pc = "exited" =>
    /\ exitStatus # 0
    /\ \A other \in CheckIds \ {FailedCheck} : rassertStatus(other) # exitStatus

\* C4 amended: a process ended by a check has status 1, whichever check it was,
\* and has printed that check's identifier, and nothing else, to the error stream.
C4_StatusOneAndOwnIdentifier ==
  pc = "exited" =>
    /\ exitStatus = 1
    /\ errOut = << FailedCheck >>

\* log2's check has ended the process
C4_Witness == entry = "log2" /\ pc = "exited" /\ errOut = << 2 >>

\* the strides the sweep is to cover, in elements: minStride / 4 doubled while
\* its size in bytes is at most maxStride
SweptStrides ==
  { st \in 1 .. Mod :
      /\ st * ElemSize <= maxStride
      /\ \E k \in 0 .. UINT_BITS : st = (minStride \div ElemSize) * (2 ^ k) }

\* the number of doublings that lead from minStride / 4 to `st`
Doublings(st) ==
  CHOOSE k \in 0 .. UINT_BITS : st = (minStride \div ElemSize) * (2 ^ k)

\* the grid cells that hold a measurement
StoredCells == { c \in DOMAIN times : times[c] # 0 }

\* C5: with minStride >= 4, when the sweep loop has finished, timeOfArrayRead
\* has been invoked exactly once for every (elems, stride) with elems in
\* 1 .. maxAssoc-1 and stride in the doubling sequence up to maxStride
\* inclusive, and for no other pair; the cells of the grid that were stored to
\* are exactly the cells (elems, number of doublings of stride); for maxAssoc 3,
\* minStride 4, maxStride 8 these are rows 1..2 of columns 0 and 1.
C5_SweepCoversGrid ==
  (entry = "main" /\ pc = "report" /\ minStride >= ElemSize) =>
    /\ calls = [ c \in (1 .. (assocBound - 1)) \X SweptStrides |-> 1 ]
    /\ StoredCells =
         { << c[1], Doublings(c[2]) >> : c \in (1 .. (assocBound - 1)) \X SweptStrides }
    /\ (assocBound = 3 /\ minStride = 4 /\ maxStride = 8) =>
         /\ SweptStrides = {1, 2}
         /\ StoredCells = (1 .. 2) \X (0 .. 1)

\* the sweep with maxAssoc 3, minStride 4 bytes, maxStride 8 bytes has finished
C5_Witness ==
  /\ entry = "main" /\ pc = "report" /\ ~ub
  /\ assocBound = 3 /\ minStride = 4 /\ maxStride = 8
  /\ DOMAIN calls = (1 .. 2) \X {1, 2}

\* C6: for stride >= 1 and elems >= 1, after fillDirectIndexes the chase from
\* index 0 reads 0, stride, ..., (elems-1)*stride in that order and is then back
\* at 0; for elems 4, stride 1 the buffer starts 1, 2, 3, 0.
C6_DirectOrder ==
  (entry = "fillDirectIndexes" /\ pc = "returned") =>
    /\ Chase(array, 0, elems) = [ k \in 1 .. elems |-> (k - 1) * stride ] \o << 0 >>
    /\ (elems = 4 /\ stride = 1) =>
         << array[0], array[1], array[2], array[3] >> = << 1, 2, 3, 0 >>

\* fillDirectIndexes(1, 4) has returned
C6_Witness ==
  /\ entry = "fillDirectIndexes" /\ pc = "returned"
  /\ elems = 4 /\ stride = 1
  /\ written = 0 .. 3

\* C7: for stride >= 1 and elems >= 1, after fillReverseIndexes the chase from
\* (elems-1)*stride reads (elems-1)*stride, (elems-2)*stride, ..., stride, 0 in
\* that order and is then back at (elems-1)*stride; for elems 4, stride 1 the
\* buffer starts 3, 0, 1, 2.
C7_ReverseOrder ==
  (entry = "fillReverseIndexes" /\ pc = "returned") =>
    /\ Chase(array, (elems - 1) * stride, elems) =
         [ k \in 1 .. elems |-> (elems - k) * stride ] \o << (elems - 1) * stride >>
    /\ (elems = 4 /\ stride = 1) =>
         << array[0], array[1], array[2], array[3] >> = << 3, 0, 1, 2 >>

\* fillReverseIndexes(1, 4) has returned
C7_Witness ==
  /\ entry = "fillReverseIndexes" /\ pc = "returned"
  /\ elems = 4 /\ stride = 1
  /\ written = 0 .. 3

\* C8 as stated: the first timed read of a batch is taken at the index the
\* warmup ended on (sink holds it: the last value the warmup read).
C8_TimedContinuesWarmup ==
  (entry = "main" /\ pc = "timed" /\ i = 0) => idxTimed = sink

\* C8 amended: the timed phase of a batch is a chase of its own from position 0,
\* wherever the warmup ended: its first read is taken at 0, and after i reads it
\* is where i steps from 0 lead.
C8_TimedRestartsAtZero ==
  (entry = "main" /\ pc = "timed" /\ FootprintFits) =>
    /\ i = 0 => idxTimed = 0
    /\ idxTimed = Chase(array, 0, i)[i + 1]

\* the warmup ended away from position 0 and the timed phase is about to read
C8_Witness ==
  /\ entry = "main" /\ pc = "timed" /\ i = 0 /\ ~ub
  /\ sink # 0
  /\ idxTimed = 0

\* C9: once main's check has passed, the process ends (stated in the claim's
\* favour: a process the system has killed counts as ended).
C9_RunTerminates ==
  (entry = "main" /\ pc = "alloc") ~> (pc = "done" \/ pc = "killed")

\* C10: when main's check has passed and minStride >= 4, every position of the
\* buffer the sweep stores to or reads is below arrayLen.
C10_SweepInsideBuffer ==
  (entry = "main" /\ minStride >= ElemSize) =>
    \A p \in written \cup readPos : p < arrayLen

====
